---- MODULE Spec2Model ----
(***************************************************************************)
(* FormSchema (FormErrorManager-based adapter, src/unnamed/part_003) as a  *)
(* state machine.  One validation pass is two atomic steps: the            *)
(* synchronous prefix of the async method, up to its await of the engine,  *)
(* runs inside the calling action; the continuation after the await is the *)
(* action Settle.  Strings are TLA+ strings; a JS object is a function     *)
(* whose DOMAIN is its own keys; an optional value is a sequence of        *)
(* length 0 (undefined) or 1.                                              *)
(***************************************************************************)
EXTENDS Integers, Sequences, FiniteSets, TLC

\* ------------------------------------------------------------------ bounds
\* passes that may await the engine at the same time
MaxInFlight == 1
\* cross-field rules registered on one instance (constructor + applyRule)
MaxRules == 1
\* passes that await the engine at the same time where passes overlap
MaxOverlap == 2
\* errors in the store beyond which a caller adds no more
MaxErrors == 2
\* errors in one ValidationError handed to the path-to-message store
MaxReported == 2

VARIABLES
  schemaOptions,  \* which form definition the instance was constructed with
  rawInput,       \* FormSchema._rawInput
  schema,         \* FormSchema._schema: the refinements folded into z.object(fields)
  refinedFields,  \* FormSchema._refinedFields
  errors,         \* FormErrorManager._errors
  pending,        \* validation passes suspended at their await, in start order
  last,           \* the most recent call or settlement, with its arguments or result
  trace,          \* how far the calls made so far follow the scenario of the form
  subscribers,    \* FormSchema._subscribers, in insertion order
  setterCache,    \* FormSchema._setterCache: field -> the setter function made for it
  created,        \* how many setter functions the instance has created
  shared,         \* a caller holds a reference to the very object that is _rawInput
  inFlightLimit,  \* how many passes the callers let await the engine at once
  errorMap        \* _errors of the path-to-message FormSchema (part_002) run alongside

vars == <<schemaOptions, rawInput, schema, refinedFields, errors, pending, last, trace,
          subscribers, setterCache, created, shared, inFlightLimit, errorMap>>

\* what no validation pass of this FormSchema touches
registry == <<subscribers, setterCache, created, inFlightLimit, errorMap>>

\* ------------------------------------------------------------ form definitions
\* The two forms of the specification's scenarios:
\*   user    = { name: string().min(1), age: number().min(18) }
\*   account = { password: string(), confirmPassword: string() }
SchemaNames == {"user", "account"}

FieldSchemas(opts) ==
  IF opts = "user" THEN <<"name", "age">> ELSE <<"password", "confirmPassword">>

RECURSIVE Range(_)
Range(s) == IF s = <<>> THEN {} ELSE {Head(s)} \cup Range(Tail(s))

Declared(opts) == Range(FieldSchemas(opts))

\* Keys every plain JS object inherits from Object.prototype.
ObjectPrototypeKeys == {"toString"}

\* `field in this._fieldSchemas`: own keys and inherited keys alike.
InFieldSchemas(opts, field) ==
  field \in Declared(opts) \/ field \in ObjectPrototypeKeys

\* names a caller may pass as a field
Names(opts) == Declared(opts) \cup {"notAField"} \cup ObjectPrototypeKeys

ValuesOf(field) ==
  CASE field = "name" -> {"", "Ann"}
    [] field = "age" -> {17, 25}
    [] OTHER -> {"x", "y"}

EmptyInput == [k \in {} |-> ""]

\* every object holding, for some of the declared fields, a value of that field
RECURSIVE InputsOver(_)
InputsOver(fields) ==
  IF fields = <<>> THEN {EmptyInput}
  ELSE LET rest == InputsOver(Tail(fields))
       IN rest \cup { (Head(fields) :> v) @@ r : v \in ValuesOf(Head(fields)), r \in rest }

AllInputs(opts) == InputsOver(FieldSchemas(opts))

\* the objects callers hand to setRawValue, mergeRawValue, reset, validate(input)
SampleInputs(opts) ==
  IF opts = "user"
    THEN { EmptyInput,
           [k \in {"name", "age"} |-> IF k = "name" THEN "" ELSE 17],
           [k \in {"name", "age"} |-> IF k = "name" THEN "Ann" ELSE 25] }
    ELSE { EmptyInput,
           [k \in {"password", "confirmPassword"} |-> IF k = "password" THEN "x" ELSE "y"],
           [k \in {"password", "confirmPassword"} |-> "x"] }

\* objects naming only some of the fields, as callers hand to mergeRawValue
PartialInputs(opts) ==
  IF opts = "user" THEN { "age" :> 25 } ELSE { "confirmPassword" :> "x" }

\* obj[field], undefined when the key is absent
Get(obj, field) == IF field \in DOMAIN obj THEN <<obj[field]>> ELSE <<>>

\* the cross-field rules a caller registers
EqualityRule(path) == [path |-> path, code |-> "PASSWORD_MISMATCH", check |-> "equal"]

RulePool(opts) ==
  IF opts = "account"
    THEN { EqualityRule(<<"password", "confirmPassword">>), EqualityRule(<<"confirmPassword">>) }
    ELSE {}

\* ------------------------------------------------------------ the engine (zod)
\* A field's own type applied to one value: the issues carry the path
\* relative to the schema that was parsed, which is the empty path.
FieldParse(field, val) ==
  IF val = <<>>
    THEN << [path |-> <<>>, code |-> "invalid_type", message |-> "Required", origin |-> ""] >>
  ELSE IF field = "name" /\ val[1] = ""
    THEN << [path |-> <<>>, code |-> "too_small", message |-> "Name is required", origin |-> "string"] >>
  ELSE IF field = "age" /\ val[1] < 18
    THEN << [path |-> <<>>, code |-> "too_small", message |-> "You must be at least 18", origin |-> "number"] >>
  ELSE <<>>

\* a wrong type aborts the object parse; a failed check only marks it dirty
TypeFails(field, val) == val = <<>>

Prefixed(field, issues) ==
  [i \in 1..Len(issues) |-> [issues[i] EXCEPT !.path = <<field>> \o @]]

RECURSIVE ObjectIssues(_, _)
ObjectIssues(fields, input) ==
  IF fields = <<>> THEN <<>>
  ELSE Prefixed(Head(fields), FieldParse(Head(fields), Get(input, Head(fields))))
         \o ObjectIssues(Tail(fields), input)

ObjectAborted(fields, input) ==
  \E f \in Range(fields) : TypeFails(f, Get(input, f))

\* rule.check on the parsed data
RuleHolds(rule, data) == data["password"] = data["confirmPassword"]

\* .refine(check, {message: rule.code, path}): one issue, at the rule's whole path
RECURSIVE RefineIssues(_, _)
RefineIssues(rules, data) ==
  IF rules = <<>> THEN <<>>
  ELSE (IF RuleHolds(Head(rules), data) THEN <<>>
        ELSE << [path |-> Head(rules).path, code |-> "custom",
                 message |-> Head(rules).code, origin |-> ""] >>)
       \o RefineIssues(Tail(rules), data)

\* the object's output: the declared keys only
ParsedData(fields, input) == [k \in Range(fields) \cap DOMAIN input |-> input[k]]

\* a refinement taking the place of the object's own checks when they abort
SafeParseObjectRulesFirst(fields, rules, input) ==
  LET own == ObjectIssues(fields, input)
      all == IF rules = <<>> THEN own
             ELSE IF ObjectAborted(fields, input) THEN <<>>
             ELSE own \o RefineIssues(rules, ParsedData(fields, input))
  IN [success |-> all = <<>>, issues |-> all, data |-> ParsedData(fields, input)]

\* this._schema.safeParseAsync(input)
SafeParseObject(fields, rules, input) ==
  LET own == ObjectIssues(fields, input)
      all == IF ObjectAborted(fields, input) THEN own
             ELSE own \o RefineIssues(rules, ParsedData(fields, input))
  IN [success |-> all = <<>>, issues |-> all, data |-> ParsedData(fields, input)]

\* this._fieldSchemas[field].safeParseAsync(value)
SafeParseField(field, val) ==
  [success |-> FieldParse(field, val) = <<>>, issues |-> FieldParse(field, val), data |-> val]

\* ------------------------------------------------------------ error objects
ValidationCode == [FIELD_UNKNOWN |-> "FIELD_UNKNOWN", UNEXPECTED |-> "UNEXPECTED"]

\* path.join('.')
RECURSIVE JoinPath(_)
JoinPath(path) ==
  IF path = <<>> THEN ""
  ELSE IF Len(path) = 1 THEN path[1]
  ELSE path[1] \o "." \o JoinPath(Tail(path))

\* issuePath.startsWith(prefix)
StartsWith(s, prefix) ==
  Len(prefix) <= Len(s) /\ SubSeq(s, 1, Len(prefix)) = prefix

\* a FieldError carrying only the last segment of the issue's path
ToFieldErrorLastSegment(issue) ==
  [path |-> IF issue.path = <<>> THEN "" ELSE issue.path[Len(issue.path)],
   code |-> IF issue.origin # "" THEN issue.origin \o "." \o issue.code ELSE issue.code,
   message |-> issue.message,
   origin |-> issue.origin]

\* the FieldError buildValidationError makes of one engine issue
ToFieldError(issue) ==
  [path |-> JoinPath(issue.path),
   code |-> IF issue.origin # "" THEN issue.origin \o "." \o issue.code ELSE issue.code,
   message |-> issue.message,
   origin |-> issue.origin]

\* fields.map(f => `${f.path}: ${f.message}`).join(', ') || 'Validation failed.'
RECURSIVE JoinMessages(_)
JoinMessages(fields) ==
  IF fields = <<>> THEN ""
  ELSE LET one == Head(fields).path \o ": " \o Head(fields).message
       IN IF Len(fields) = 1 THEN one ELSE one \o ", " \o JoinMessages(Tail(fields))

ValidationError(fields) ==
  [fields |-> fields,
   message |-> IF JoinMessages(fields) = "" THEN "Validation failed." ELSE JoinMessages(fields)]

\* what the engine throws when it fails instead of reporting issues
EngineException == "engine failure"
\* a TypeError: this._fieldSchemas[field] is an inherited method, not a schema
NotASchema == "fieldSchema.safeParseAsync is not a function"

\* buildValidationError converting only the first issue of a ZodError
BuildFromIssuesFirstOnly(issues) ==
  ValidationError([i \in 1..1 |-> ToFieldError(issues[i])])

\* buildValidationError(e, field): e is a ZodError (its issues) or anything else
BuildFromIssues(issues) ==
  ValidationError([i \in 1..Len(issues) |-> ToFieldError(issues[i])])

\* buildValidationError ignoring the field it was given
BuildFromExceptionFormLevel(text, field) ==
  ValidationError(<< [path |-> "", code |-> ValidationCode.UNEXPECTED,
                      message |-> text, origin |-> ""] >>)

BuildFromException(text, field) ==
  ValidationError(<< [path |-> field, code |-> ValidationCode.UNEXPECTED,
                      message |-> text, origin |-> ""] >>)

UnknownFieldError(field) ==
  ValidationError(<< [path |-> field, code |-> ValidationCode.FIELD_UNKNOWN,
                      message |-> "Unknown Field: " \o field, origin |-> ""] >>)

\* ------------------------------------------------------------ FormErrorManager
\* a manager constructed with errors left over from somewhere
NewFormErrorManagerSeeded(initialErrors) ==
  << [path |-> "", code |-> "stale", message |-> "left over", origin |-> ""] >>

\* new FormErrorManager(initialErrors = [])
NewFormErrorManager(initialErrors) == initialErrors

ClearErrors == <<>>

SetErrors(fieldErrors) == fieldErrors

\* _updateErrors storing only the first field error
UpdateErrorsFirstOnly(validationError) ==
  IF Len(validationError.fields) > 0 THEN SetErrors(<<validationError.fields[1]>>)
  ELSE ClearErrors

\* FormSchema._updateErrors
UpdateErrors(validationError) ==
  IF Len(validationError.fields) > 0 THEN SetErrors(validationError.fields) ELSE ClearErrors

\* hasError comparing paths even when no path is given
HasErrorPathOnly(errs, path) ==
  \E i \in 1..Len(errs) : errs[i].path = (IF path = <<>> THEN "" ELSE path[1])

\* hasError(path): path omitted is <<>>, a given path is <<p>>
HasError(errs, path) ==
  IF path = <<>> \/ path[1] = ""
    THEN Len(errs) > 0
    ELSE \E i \in 1..Len(errs) : errs[i].path = path[1]

GetErrorsForField(errs, path) == SelectSeq(errs, LAMBDA e : e.path = path)

GetAllErrors(errs) == errs

IsValid(errs) == ~HasError(errs, <<>>)

\* ------------------------------------------------------------ validate()
\* What the caller passed: arg1 is undefined, a string, an object or anything
\* else (null); arg2 is undefined (<<>>) or a value (<<v>>).
ArgNone == [t |-> "undefined"]
ArgField(field) == [t |-> "string", s |-> field]
ArgInput(input) == [t |-> "object", o |-> input]
ArgNull == [t |-> "null"]

\* which of the four overloads the arguments select (part_003 lines 500-536)
ShapeOf(arg1, arg2) ==
  CASE arg1.t = "undefined" -> "all"
    [] arg1.t = "string" /\ arg2 = <<>> -> "field"
    [] arg1.t = "object" -> "input"
    [] arg1.t = "string" /\ arg2 # <<>> -> "fieldValue"
    [] OTHER -> "invalid"

\* inputToValidate read from a fresh object instead of the store
InputToValidateBlank(raw, arg1, arg2) ==
  CASE ShapeOf(arg1, arg2) = "input" -> arg1.o
    [] OTHER -> EmptyInput

\* inputToValidate without the override of case 4
InputToValidateNoOverride(raw, arg1, arg2) ==
  CASE ShapeOf(arg1, arg2) = "input" -> arg1.o
    [] OTHER -> raw

\* inputToValidate
InputToValidate(raw, arg1, arg2) ==
  CASE ShapeOf(arg1, arg2) = "input" -> arg1.o
    [] ShapeOf(arg1, arg2) = "fieldValue" -> (arg1.s :> arg2[1]) @@ raw
    [] OTHER -> raw

\* the Error Store after the overload's set-up and the head of the try block
ErrorsAtEntry(errs, arg1, arg2) ==
  CASE ShapeOf(arg1, arg2) = "all" -> ClearErrors
    [] ShapeOf(arg1, arg2) = "field" -> ClearErrors
    [] OTHER -> errs

\* what a method asks of the engine: the whole form, or one field's own type
ObjectRequest(rules, input) == [kind |-> "object", rules |-> rules, input |-> input]
FieldRequest(field, val) == [kind |-> "field", field |-> field, val |-> val]

\* a settled call: the Error Store it leaves, how its promise settled
\* (resolved or rejected), the ValidationError or the data or the foreign
\* exception it settled with, and how often it notified the subscribers
Settled(errs, outcome, error, data, thrown, notified) ==
  [errors |-> errs, outcome |-> outcome, error |-> error, data |-> data,
   thrown |-> thrown, notified |-> notified]

Suspended(op, shape, field, isRefined, errs, request) ==
  [suspended |-> TRUE, errors |-> errs,
   pass |-> [op |-> op, shape |-> shape, field |-> field, isRefined |-> isRefined,
             request |-> request]]

Returned(shape, field, result) ==
  [suspended |-> FALSE, shape |-> shape, field |-> field, result |-> result]

\* validate(arg1, arg2) asking the engine for the whole form whatever the field
ValidateEntryWholeForm(opts, raw, errs, refined, rules, arg1, arg2) ==
  LET shape == ShapeOf(arg1, arg2)
      field == IF arg1.t = "string" THEN arg1.s ELSE ""
      inputToValidate == InputToValidate(raw, arg1, arg2)
      fail(e) == Returned(shape, field, Settled(UpdateErrors(e), "resolved", <<e>>, <<>>, <<>>, 1))
  IN IF shape = "invalid"
       THEN fail(BuildFromException("Invalid arguments provided to validate method.", ""))
     ELSE IF shape \in {"all", "input"}
       THEN Suspended("validate", shape, field, FALSE, ErrorsAtEntry(errs, arg1, arg2),
                      ObjectRequest(rules, inputToValidate))
     ELSE IF ~InFieldSchemas(opts, field)
       THEN fail(UnknownFieldError(field))
     ELSE IF field \in Range(refined)
       THEN Suspended("validate", shape, field, TRUE, ErrorsAtEntry(errs, arg1, arg2),
                      ObjectRequest(rules, inputToValidate))
     ELSE IF field \notin Declared(opts)
       THEN fail(BuildFromException(NotASchema, field))
     ELSE Suspended("validate", shape, field, FALSE, ErrorsAtEntry(errs, arg1, arg2),
                    ObjectRequest(rules, inputToValidate))

\* validate(arg1, arg2) from its first line to its first await of the engine,
\* or to its return when it never reaches the engine.
ValidateEntry(opts, raw, errs, refined, rules, arg1, arg2) ==
  LET shape == ShapeOf(arg1, arg2)
      field == IF arg1.t = "string" THEN arg1.s ELSE ""
      inputToValidate == InputToValidate(raw, arg1, arg2)
      fail(e) == Returned(shape, field, Settled(UpdateErrors(e), "resolved", <<e>>, <<>>, <<>>, 1))
  IN IF shape = "invalid"
       THEN fail(BuildFromException("Invalid arguments provided to validate method.", ""))
     ELSE IF shape \in {"all", "input"}
       THEN Suspended("validate", shape, field, FALSE, ErrorsAtEntry(errs, arg1, arg2),
                      ObjectRequest(rules, inputToValidate))
     ELSE IF ~InFieldSchemas(opts, field)
       THEN fail(UnknownFieldError(field))
     ELSE IF field \in Range(refined)
       THEN Suspended("validate", shape, field, TRUE, ErrorsAtEntry(errs, arg1, arg2),
                      ObjectRequest(rules, inputToValidate))
     ELSE IF field \notin Declared(opts)
       THEN fail(BuildFromException(NotASchema, field))
     ELSE Suspended("validate", shape, field, FALSE, ErrorsAtEntry(errs, arg1, arg2),
                    FieldRequest(field, IF arg2 # <<>> THEN arg2 ELSE Get(inputToValidate, field)))

\* the whole-form issues, unfiltered
FilterIssuesNone(issues, targetPath) == issues

\* the issues of a whole-form failure that belong to the target field
FilterIssues(issues, targetPath) ==
  SelectSeq(issues, LAMBDA issue :
    JoinPath(issue.path) = targetPath \/ StartsWith(JoinPath(issue.path), targetPath \o "."))

\* what the engine answers to a request
EngineResult(opts, request) ==
  IF request.kind = "object"
    THEN SafeParseObject(FieldSchemas(opts), request.rules, request.input)
    ELSE SafeParseField(request.field, request.val)

\* validate(...) after the await without its try/catch: an exception of the
\* engine rejects the promise
ValidateResumeUncaught(opts, pass, threw) ==
  LET result == EngineResult(opts, pass.request)
      fail(e) == Settled(UpdateErrors(e), "resolved", <<e>>, <<>>, <<>>, 1)
      succeed == Settled(ClearErrors, "resolved", <<>>, <<>>, <<>>, 1)
  IN IF threw
       THEN Settled(ClearErrors, "rejected", <<>>, <<>>, <<EngineException>>, 0)
     ELSE IF pass.shape \in {"field", "fieldValue"} /\ pass.isRefined
       THEN LET fieldErrors == IF result.success THEN <<>>
                               ELSE FilterIssues(result.issues, pass.field)
            IN IF Len(fieldErrors) > 0 THEN fail(BuildFromIssues(fieldErrors)) ELSE succeed
     ELSE IF ~result.success THEN fail(BuildFromIssues(result.issues)) ELSE succeed

\* validate(...) after the await, notifying in the failing branch and again
\* at the end
ValidateResumeTwice(opts, pass, threw) ==
  LET result == EngineResult(opts, pass.request)
      fail(e) == Settled(UpdateErrors(e), "resolved", <<e>>, <<>>, <<>>, 2)
      succeed == Settled(ClearErrors, "resolved", <<>>, <<>>, <<>>, 1)
  IN IF threw
       THEN fail(BuildFromException(EngineException, pass.field))
     ELSE IF pass.shape \in {"all", "input"}
       THEN IF ~result.success THEN fail(BuildFromIssues(result.issues)) ELSE succeed
     ELSE IF pass.isRefined
       THEN LET fieldErrors == IF result.success THEN <<>>
                               ELSE FilterIssues(result.issues, pass.field)
            IN IF Len(fieldErrors) > 0 THEN fail(BuildFromIssues(fieldErrors)) ELSE succeed
     ELSE IF ~result.success THEN fail(BuildFromIssues(result.issues)) ELSE succeed

\* validate(...) after the await, failing for a refined field whenever the
\* whole form failed
ValidateResumeNominal(opts, pass, threw) ==
  LET result == EngineResult(opts, pass.request)
      fail(e) == Settled(UpdateErrors(e), "resolved", <<e>>, <<>>, <<>>, 1)
      succeed == Settled(ClearErrors, "resolved", <<>>, <<>>, <<>>, 1)
  IN IF threw
       THEN fail(BuildFromException(EngineException, pass.field))
     ELSE IF pass.shape \in {"all", "input"}
       THEN IF ~result.success THEN fail(BuildFromIssues(result.issues)) ELSE succeed
     ELSE IF pass.isRefined
       THEN IF ~result.success
              THEN fail(BuildFromIssues(FilterIssues(result.issues, pass.field)))
              ELSE succeed
     ELSE IF ~result.success THEN fail(BuildFromIssues(result.issues)) ELSE succeed

\* validate(...) from the engine's answer to its return; threw: the engine
\* raised an exception instead of answering.
ValidateResume(opts, pass, threw) ==
  LET result == EngineResult(opts, pass.request)
      fail(e) == Settled(UpdateErrors(e), "resolved", <<e>>, <<>>, <<>>, 1)
      succeed == Settled(ClearErrors, "resolved", <<>>, <<>>, <<>>, 1)
  IN IF threw
       THEN fail(BuildFromException(EngineException, pass.field))
     ELSE IF pass.shape \in {"all", "input"}
       THEN IF ~result.success THEN fail(BuildFromIssues(result.issues)) ELSE succeed
     ELSE IF pass.isRefined
       THEN LET fieldErrors == IF result.success THEN <<>>
                               ELSE FilterIssues(result.issues, pass.field)
            IN IF Len(fieldErrors) > 0 THEN fail(BuildFromIssues(fieldErrors)) ELSE succeed
     ELSE IF ~result.success THEN fail(BuildFromIssues(result.issues)) ELSE succeed

\* ------------------------------------------------------------ getValidatedValue()
\* getValidatedValue(field?) to its first await, or to its throw (lines 157-244)
GetValidatedEntry(opts, raw, errs, refined, rules, fieldArg) ==
  LET field == IF fieldArg = <<>> THEN "" ELSE fieldArg[1]
      shape == IF fieldArg = <<>> THEN "all" ELSE "field"
  IN IF fieldArg = <<>>
       THEN Suspended("getValidatedValue", shape, field, FALSE, ClearErrors,
                      ObjectRequest(rules, raw))
     ELSE IF ~InFieldSchemas(opts, field)
       THEN LET e == UnknownFieldError(field)
            IN Returned(shape, field, Settled(UpdateErrors(e), "rejected", <<e>>, <<>>, <<>>, 1))
     ELSE IF field \in Range(refined)
       THEN Suspended("getValidatedValue", shape, field, TRUE, ClearErrors,
                      ObjectRequest(rules, raw))
     ELSE IF field \notin Declared(opts)
       THEN Returned(shape, field, Settled(ClearErrors, "rejected", <<>>, <<>>, <<NotASchema>>, 0))
     ELSE Suspended("getValidatedValue", shape, field, FALSE, ClearErrors,
                    FieldRequest(field, Get(raw, field)))

\* getValidatedValue from the engine's answer to its return or throw; errs is
\* the Error Store at that moment.
GetValidatedResume(opts, pass, errs, threw) ==
  LET result == EngineResult(opts, pass.request)
      e == BuildFromIssues(result.issues)
  IN IF threw
       THEN Settled(errs, "rejected", <<>>, <<>>, <<EngineException>>, 0)
     ELSE IF ~result.success
       THEN Settled(UpdateErrors(e), "rejected", <<e>>, <<>>, <<>>, 1)
     ELSE IF pass.shape = "field" /\ pass.isRefined
       THEN Settled(ClearErrors, "resolved", <<>>, Get(result.data, pass.field), <<>>, 1)
     ELSE IF pass.shape = "field"
       THEN Settled(ClearErrors, "resolved", <<>>, result.data, <<>>, 1)
     ELSE Settled(ClearErrors, "resolved", <<>>, <<result.data>>, <<>>, 1)

\* ------------------------------------------------------------ accessors
\* { ...obj }: a new object with obj's own keys
ShallowCopy(obj) == [k \in DOMAIN obj |-> obj[k]]

\* getRawValue()
GetRawValue == ShallowCopy(rawInput)

\* ------------------------------------------------------------ the scenarios
\* The calls of the specification's two scenarios; trace counts how many of
\* them have been made, each after the pass of the one before had settled
\* with an answer of the engine, and is off once any other call is made.
SetCall(field, value) == [op |-> "set", field |-> field, value |-> <<value>>]
ValidateCall == [op |-> "validate", field |-> "", value |-> <<>>]
OtherCall == [op |-> "other", field |-> "", value |-> <<>>]

Script(opts) ==
  IF opts = "user"
    THEN << ValidateCall, SetCall("name", "Ann"), SetCall("age", 25) >>
    ELSE << SetCall("password", "x"), SetCall("confirmPassword", "y"),
            SetCall("confirmPassword", "x") >>

\* the instance a scenario starts from
ScriptStart(opts, raw, rules) ==
  IF opts = "user"
    THEN raw = [k \in {"name", "age"} |-> IF k = "name" THEN "" ELSE 17]
    ELSE raw = EmptyInput /\ rules = << EqualityRule(<<"password", "confirmPassword">>) >>

TraceOff == [on |-> FALSE, step |-> 0]

Follows(call) ==
  /\ trace.on
  /\ pending = <<>>
  /\ trace.step < Len(Script(schemaOptions))
  /\ LET next == Script(schemaOptions)[trace.step + 1]
     IN call.op = next.op /\ call.field = next.field /\ call.value = next.value

Track(call) == IF Follows(call) THEN [on |-> TRUE, step |-> trace.step + 1] ELSE TraceOff

\* ------------------------------------------------------------ notification
\* _notifySubscribers(): the callbacks one notification invokes, in order
NotifySubscribers(subs) == subs

\* the callbacks invoked by a method that notifies `times` times
RECURSIVE Invoked(_, _)
Invoked(subs, times) ==
  IF times = 0 THEN <<>> ELSE NotifySubscribers(subs) \o Invoked(subs, times - 1)

\* `obj === obj`: what a plain assignment in place of the spread would give
AssignIsSame(obj) == TRUE

\* `{ ...obj } === obj`: a spread makes a new object, never the one it copies
SpreadIsSame(obj) == FALSE

\* ------------------------------------------------------------ actions
\* a settling pass taking the passes started before it with it
RemoveThrough(ps, i) == SubSeq(ps, i + 1, Len(ps))

Remove(ps, i) == SubSeq(ps, 1, i - 1) \o SubSeq(ps, i + 1, Len(ps))

\* a public method was called: it suspended at the engine or settled at once
Invoke(entry, op, arg1, arg2, call) ==
  /\ trace' = Track(call)
  /\ IF entry.suspended
       THEN /\ Len(pending) < inFlightLimit
            /\ errors' = entry.errors
            /\ pending' = Append(pending, entry.pass)
            /\ last' = [kind |-> "call", op |-> op, shape |-> entry.pass.shape,
                        field |-> entry.pass.field, arg1 |-> arg1, arg2 |-> arg2,
                        pass |-> <<entry.pass>>, result |-> <<>>, threw |-> FALSE,
                        invoked |-> <<>>]
       ELSE /\ errors' = entry.result.errors
            /\ pending' = pending
            /\ last' = [kind |-> "settle", op |-> op, shape |-> entry.shape,
                        field |-> entry.field, arg1 |-> arg1, arg2 |-> arg2,
                        pass |-> <<>>, result |-> <<entry.result>>, threw |-> FALSE,
                        invoked |-> Invoked(subscribers, entry.result.notified)]

\* a public method that calls validate(varg1, varg2) after its own work
InvokeValidate(raw, varg1, varg2, op, arg1, arg2, call) ==
  Invoke(ValidateEntry(schemaOptions, raw, errors, refinedFields, schema, varg1, varg2),
         op, arg1, arg2, call)

\* validate()
Validate ==
  /\ InvokeValidate(rawInput, ArgNone, <<>>, "validate", ArgNone, <<>>, ValidateCall)
  /\ UNCHANGED <<schemaOptions, rawInput, schema, refinedFields, shared, registry>>

\* validate(field)
ValidateField ==
  \E field \in Names(schemaOptions) :
    /\ InvokeValidate(rawInput, ArgField(field), <<>>, "validate", ArgField(field), <<>>, OtherCall)
    /\ UNCHANGED <<schemaOptions, rawInput, schema, refinedFields, shared, registry>>

\* validate(input)
ValidateInput ==
  \E input \in SampleInputs(schemaOptions) :
    /\ InvokeValidate(rawInput, ArgInput(input), <<>>, "validate", ArgInput(input), <<>>, OtherCall)
    /\ UNCHANGED <<schemaOptions, rawInput, schema, refinedFields, shared, registry>>

\* validate(field, value)
ValidateFieldValue ==
  \E field \in Names(schemaOptions) : \E value \in ValuesOf(field) :
    /\ InvokeValidate(rawInput, ArgField(field), <<value>>, "validate",
                      ArgField(field), <<value>>, OtherCall)
    /\ UNCHANGED <<schemaOptions, rawInput, schema, refinedFields, shared, registry>>

\* validate(null): none of the four overloads
ValidateInvalid ==
  /\ InvokeValidate(rawInput, ArgNull, <<>>, "validate", ArgNull, <<>>, OtherCall)
  /\ UNCHANGED <<schemaOptions, rawInput, schema, refinedFields, shared, registry>>

\* setRawValue spreading the new values over the old ones
OverwrittenMerging(raw, newValues) == newValues @@ raw

\* this._rawInput after setRawValue(newValues)
Overwritten(raw, newValues) == ShallowCopy(newValues)

\* mergeRawValue spreading the old values over the new ones
MergedOldWins(raw, partialValues) == raw @@ partialValues

\* this._rawInput after mergeRawValue(partialValues)
Merged(raw, partialValues) == partialValues @@ raw

\* a setter that stores an object holding the field alone
AssignedAlone(raw, field, value) == (field :> value)

\* a setter that leaves the write to the end of the validation
AssignedLater(raw, field, value) == raw

\* this._rawInput after the setter of field was called with value
Assigned(raw, field, value) == (field :> value) @@ raw

\* setRawValue(newValues)
SetRawValue ==
  \E newValues \in SampleInputs(schemaOptions) :
    /\ rawInput' = Overwritten(rawInput, newValues)
    /\ InvokeValidate(rawInput', ArgNone, <<>>, "setRawValue",
                      ArgInput(newValues), <<>>, OtherCall)
    /\ shared' = SpreadIsSame(newValues)
    /\ UNCHANGED <<schemaOptions, schema, refinedFields, registry>>

\* mergeRawValue(partialValues)
MergeRawValue ==
  \E partialValues \in SampleInputs(schemaOptions) \cup PartialInputs(schemaOptions) :
    /\ rawInput' = Merged(rawInput, partialValues)
    /\ InvokeValidate(rawInput', ArgNone, <<>>, "mergeRawValue",
                      ArgInput(partialValues), <<>>, OtherCall)
    /\ shared' = SpreadIsSame(partialValues)
    /\ UNCHANGED <<schemaOptions, schema, refinedFields, registry>>

\* reset(initialValues?): setRawValue(initialValues || {})
Reset ==
  \E initialValues \in {ArgNone} \cup { ArgInput(v) : v \in SampleInputs(schemaOptions) } :
    /\ rawInput' = Overwritten(rawInput, IF initialValues.t = "undefined" THEN EmptyInput
                                         ELSE initialValues.o)
    /\ InvokeValidate(rawInput', ArgNone, <<>>, "reset", initialValues, <<>>, OtherCall)
    /\ shared' = SpreadIsSame(IF initialValues.t = "undefined" THEN EmptyInput
                              ELSE initialValues.o)
    /\ UNCHANGED <<schemaOptions, schema, refinedFields, registry>>

\* setValueFor(field)(value)
SetValueFor ==
  \E field \in Declared(schemaOptions) : \E value \in ValuesOf(field) :
    /\ rawInput' = Assigned(rawInput, field, value)
    /\ InvokeValidate(rawInput', ArgField(field), <<>>, "setValueFor",
                      ArgField(field), <<value>>, SetCall(field, value))
    /\ UNCHANGED <<schemaOptions, schema, refinedFields, shared, registry>>

\* setValueFor(field) creating a setter on every call
SetterForUncached(cache, made, field) ==
  [setter |-> made + 1, cache |-> (field :> (made + 1)) @@ cache, created |-> made + 1]

\* setValueFor(field): the setter it returns, and the cache and the count of
\* setters created that it leaves; a setter function is known by its number
SetterFor(cache, made, field) ==
  IF field \in DOMAIN cache
    THEN [setter |-> cache[field], cache |-> cache, created |-> made]
    ELSE [setter |-> made + 1, cache |-> (field :> (made + 1)) @@ cache,
          created |-> made + 1]

\* setValueFor(field), as far as its return: the setter is not called
SetValueForLookup ==
  \E field \in Declared(schemaOptions) :
    LET r == SetterFor(setterCache, created, field)
    IN /\ setterCache' = r.cache
       /\ created' = r.created
       /\ last' = [kind |-> "lookup", op |-> "setValueFor", field |-> field,
                   setter |-> r.setter, pass |-> <<>>]
       /\ UNCHANGED <<schemaOptions, rawInput, schema, refinedFields, errors, pending,
                      trace, subscribers, shared, inFlightLimit, errorMap>>

\* the callbacks a caller may subscribe
Callbacks == {"onChange", "onOther"}

\* a list's push in place of Set.add
ListAdd(subs, cb) == Append(subs, cb)

\* Set.prototype.add: insertion order, no element twice
SetAdd(subs, cb) == IF cb \in Range(subs) THEN subs ELSE Append(subs, cb)

\* Set.prototype.delete
SetDelete(subs, cb) == SelectSeq(subs, LAMBDA x : x # cb)

\* subscribe(callback)
Subscribe ==
  \E cb \in Callbacks :
    /\ subscribers' = SetAdd(subscribers, cb)
    /\ last' = [kind |-> "bus", op |-> "subscribe", callback |-> cb,
                before |-> subscribers, pass |-> <<>>]
    /\ UNCHANGED <<schemaOptions, rawInput, schema, refinedFields, errors, pending,
                   trace, setterCache, created, shared, inFlightLimit, errorMap>>

\* unsubscribe(callback)
Unsubscribe ==
  \E cb \in Callbacks :
    /\ subscribers' = SetDelete(subscribers, cb)
    /\ last' = [kind |-> "bus", op |-> "unsubscribe", callback |-> cb,
                before |-> subscribers, pass |-> <<>>]
    /\ UNCHANGED <<schemaOptions, rawInput, schema, refinedFields, errors, pending,
                   trace, setterCache, created, shared, inFlightLimit, errorMap>>

\* getValidatedValue() and getValidatedValue(field)
GetValidatedValue ==
  \E fieldArg \in {<<>>} \cup { <<f>> : f \in Names(schemaOptions) } :
    /\ Invoke(GetValidatedEntry(schemaOptions, rawInput, errors, refinedFields, schema, fieldArg),
              "getValidatedValue",
              IF fieldArg = <<>> THEN ArgNone ELSE ArgField(fieldArg[1]), <<>>, OtherCall)
    /\ UNCHANGED <<schemaOptions, rawInput, schema, refinedFields, shared, registry>>

\* applyRule(rule)
ApplyRule ==
  \E rule \in RulePool(schemaOptions) :
    /\ Len(schema) < MaxRules
    /\ schema' = Append(schema, rule)
    /\ refinedFields' = refinedFields \o rule.path
    /\ trace' = TraceOff
    /\ last' = [kind |-> "rule", op |-> "applyRule", shape |-> "", field |-> "",
                arg1 |-> ArgNone, arg2 |-> <<>>, pass |-> <<>>, result |-> <<>>, threw |-> FALSE,
                invoked |-> <<>>]
    /\ UNCHANGED <<schemaOptions, rawInput, errors, pending, shared, registry>>

\* the engine answers (or throws to) one suspended pass, and the method
\* that awaited it runs to its end
Settle ==
  \E i \in 1..Len(pending) : \E threw \in BOOLEAN :
    LET pass == pending[i]
        r == IF pass.op = "validate"
               THEN ValidateResume(schemaOptions, pass, threw)
               ELSE GetValidatedResume(schemaOptions, pass, errors, threw)
    IN /\ errors' = r.errors
       /\ pending' = Remove(pending, i)
       /\ last' = [kind |-> "settle", op |-> pass.op, shape |-> pass.shape,
                   field |-> pass.field, arg1 |-> ArgNone, arg2 |-> <<>>,
                   pass |-> <<pass>>, result |-> <<r>>, threw |-> threw,
                   invoked |-> Invoked(subscribers, r.notified)]
       /\ trace' = IF threw THEN TraceOff ELSE trace
       /\ UNCHANGED <<schemaOptions, rawInput, schema, refinedFields, shared, registry>>

\* new FormSchema(schemaOptions, initialValues): the rules given to the
\* constructor are applied in order; no validation runs
RECURSIVE PathsOf(_)
PathsOf(rules) == IF rules = <<>> THEN <<>> ELSE Head(rules).path \o PathsOf(Tail(rules))

Init ==
  /\ schemaOptions \in SchemaNames
  /\ rawInput \in AllInputs(schemaOptions)
  /\ schema \in UNION { [1..n -> RulePool(schemaOptions)] : n \in 0..MaxRules }
  /\ refinedFields = PathsOf(schema)
  /\ errors = NewFormErrorManager(<<>>)
  /\ pending = <<>>
  /\ last = [kind |-> "new", op |-> "constructor", shape |-> "", field |-> "",
             arg1 |-> ArgNone, arg2 |-> <<>>, pass |-> <<>>, result |-> <<>>, threw |-> FALSE,
                invoked |-> <<>>]
  /\ trace = [on |-> ScriptStart(schemaOptions, rawInput, schema), step |-> 0]
  /\ subscribers = <<>>
  /\ setterCache = EmptyInput
  /\ created = 0
  /\ shared = SpreadIsSame(rawInput)
  /\ inFlightLimit = MaxInFlight
  /\ errorMap = EmptyInput

Next ==
  \/ Validate
  \/ ValidateField
  \/ ValidateInput
  \/ ValidateFieldValue
  \/ ValidateInvalid
  \/ SetRawValue
  \/ MergeRawValue
  \/ Reset
  \/ SetValueFor
  \/ GetValidatedValue
  \/ ApplyRule
  \/ Settle

Spec == Init /\ [][Next]_vars

\* new FormSchema({name, age}, initialValues): the form without rules, with
\* callers that let `limit` passes await at once
InitUser(limit) ==
  /\ schemaOptions = "user"
  /\ rawInput \in SampleInputs(schemaOptions)
  /\ schema = <<>>
  /\ refinedFields = PathsOf(schema)
  /\ errors = NewFormErrorManager(<<>>)
  /\ pending = <<>>
  /\ last = [kind |-> "new", op |-> "constructor", shape |-> "", field |-> "",
             arg1 |-> ArgNone, arg2 |-> <<>>, pass |-> <<>>, result |-> <<>>, threw |-> FALSE,
             invoked |-> <<>>]
  /\ trace = TraceOff
  /\ subscribers = <<>>
  /\ setterCache = EmptyInput
  /\ created = 0
  /\ shared = SpreadIsSame(rawInput)
  /\ inFlightLimit = limit
  /\ errorMap = EmptyInput

\* the setters: looked up, called, and the store rewritten in between
InitSetters == InitUser(MaxInFlight)

NextSetters ==
  \/ SetValueForLookup
  \/ SetValueFor
  \/ SetRawValue
  \/ MergeRawValue
  \/ Reset
  \/ Validate
  \/ Settle

SpecSetters == InitSetters /\ [][NextSetters]_vars

\* the subscribers and the validation passes that notify them
InitBus == InitUser(MaxInFlight)

NextBus ==
  \/ Subscribe
  \/ Unsubscribe
  \/ Validate
  \/ ValidateField
  \/ ValidateInput
  \/ ValidateFieldValue
  \/ ValidateInvalid
  \/ Settle

SpecBus == InitBus /\ [][NextBus]_vars

\* callers that await the validation of each call before they make the next
InitSerial ==
  /\ schemaOptions \in SchemaNames
  /\ rawInput \in SampleInputs(schemaOptions)
  /\ schema \in UNION { [1..n -> RulePool(schemaOptions)] : n \in 0..MaxRules }
  /\ refinedFields = PathsOf(schema)
  /\ errors = NewFormErrorManager(<<>>)
  /\ pending = <<>>
  /\ last = [kind |-> "new", op |-> "constructor", shape |-> "", field |-> "",
             arg1 |-> ArgNone, arg2 |-> <<>>, pass |-> <<>>, result |-> <<>>, threw |-> FALSE,
             invoked |-> <<>>]
  /\ trace = TraceOff
  /\ subscribers = <<>>
  /\ setterCache = EmptyInput
  /\ created = 0
  /\ shared = SpreadIsSame(rawInput)
  /\ inFlightLimit = 1
  /\ errorMap = EmptyInput

NextSerial ==
  \/ SetValueFor
  \/ SetRawValue
  \/ MergeRawValue
  \/ Reset
  \/ Validate
  \/ ValidateField
  \/ Settle

SpecSerial == InitSerial /\ [][NextSerial]_vars

\* ------------------------------------------------------------ path-to-message
\* The FormSchema of part_002 keeps its errors as an object from field path
\* to message.  errorMap is that object, for an instance given the same
\* schema and the same calls as the FormErrorManager-based one.

\* _clearErrors(): this._errors = {}
MapClearErrors == EmptyInput

\* _clearFieldError(fieldPath): delete this._errors[fieldPath]
MapClearFieldError(map, fieldPath) == [k \in DOMAIN map \ {fieldPath} |-> map[k]]

\* fields.forEach(err => this._errors[err.path || ''] = err.message)
RECURSIVE MapSetEach(_, _)
MapSetEach(map, fields) ==
  IF fields = <<>> THEN map
  ELSE MapSetEach((Head(fields).path :> Head(fields).message) @@ map, Tail(fields))

\* _updateErrors(validationError)
MapUpdateErrors(validationError) ==
  IF Len(validationError.fields) > 0
    THEN MapSetEach(MapClearErrors, validationError.fields)
    ELSE MapClearErrors

\* getFieldError(fieldPath)
GetFieldError(map, fieldPath) == Get(map, fieldPath)

\* the store after validate's set-up and the head of its try block, for a
\* call that goes on to the engine
MapAtEntry(map, arg1, arg2) ==
  CASE ShapeOf(arg1, arg2) = "all" -> MapClearErrors
    [] ShapeOf(arg1, arg2) = "field" -> MapClearFieldError(map, arg1.s)
    [] OTHER -> map

\* validate(...) from the engine's answer to its return, as far as the
\* store goes
MapResume(opts, pass, map, threw) ==
  LET result == EngineResult(opts, pass.request)
  IN IF threw
       THEN MapUpdateErrors(BuildFromException(EngineException, pass.field))
     ELSE IF pass.shape \in {"all", "input"}
       THEN IF ~result.success THEN MapUpdateErrors(BuildFromIssues(result.issues))
            ELSE MapClearErrors
     ELSE IF pass.isRefined
       THEN LET fieldErrors == IF result.success THEN <<>>
                               ELSE FilterIssues(result.issues, pass.field)
            IN IF Len(fieldErrors) > 0 THEN MapUpdateErrors(BuildFromIssues(fieldErrors))
               ELSE MapClearFieldError(map, pass.field)
     ELSE IF ~result.success THEN MapUpdateErrors(BuildFromIssues(result.issues))
     ELSE MapClearFieldError(map, pass.field)

\* the FieldErrors a ValidationError may carry
ReportedErrors ==
  { [path |-> p, code |-> "custom", message |-> m, origin |-> ""] :
      p \in {"", "name", "age"}, m \in {"Required", "Too short", "Invalid"} }

ReportedLists == UNION { [1..n -> ReportedErrors] : n \in 0..MaxReported }

\* _updateErrors is given a ValidationError
MapUpdate ==
  \E fields \in ReportedLists :
    /\ errorMap' = MapUpdateErrors(ValidationError(fields))
    /\ last' = [kind |-> "update", op |-> "_updateErrors", fields |-> fields, pass |-> <<>>]
    /\ UNCHANGED <<schemaOptions, rawInput, schema, refinedFields, errors, pending, trace,
                   subscribers, setterCache, created, shared, inFlightLimit>>

InitMessages == InitUser(MaxInFlight)

NextMessages == MapUpdate

SpecMessages == InitMessages /\ [][NextMessages]_vars

\* the two FormSchemas given the same calls, each awaited before the next
TwinValidate ==
  /\ InvokeValidate(rawInput, ArgNone, <<>>, "validate", ArgNone, <<>>, OtherCall)
  /\ errorMap' = MapAtEntry(errorMap, ArgNone, <<>>)
  /\ UNCHANGED <<schemaOptions, rawInput, schema, refinedFields, shared,
                 subscribers, setterCache, created, inFlightLimit>>

TwinValidateField ==
  \E field \in Declared(schemaOptions) :
    /\ InvokeValidate(rawInput, ArgField(field), <<>>, "validate", ArgField(field), <<>>, OtherCall)
    /\ errorMap' = MapAtEntry(errorMap, ArgField(field), <<>>)
    /\ UNCHANGED <<schemaOptions, rawInput, schema, refinedFields, shared,
                   subscribers, setterCache, created, inFlightLimit>>

TwinSetRawValue ==
  \E newValues \in SampleInputs(schemaOptions) :
    /\ rawInput' = Overwritten(rawInput, newValues)
    /\ InvokeValidate(rawInput', ArgNone, <<>>, "setRawValue",
                      ArgInput(newValues), <<>>, OtherCall)
    /\ errorMap' = MapAtEntry(errorMap, ArgNone, <<>>)
    /\ shared' = SpreadIsSame(newValues)
    /\ UNCHANGED <<schemaOptions, schema, refinedFields,
                   subscribers, setterCache, created, inFlightLimit>>

TwinMergeRawValue ==
  \E partialValues \in SampleInputs(schemaOptions) \cup PartialInputs(schemaOptions) :
    /\ rawInput' = Merged(rawInput, partialValues)
    /\ InvokeValidate(rawInput', ArgNone, <<>>, "mergeRawValue",
                      ArgInput(partialValues), <<>>, OtherCall)
    /\ errorMap' = MapAtEntry(errorMap, ArgNone, <<>>)
    /\ shared' = SpreadIsSame(partialValues)
    /\ UNCHANGED <<schemaOptions, schema, refinedFields,
                   subscribers, setterCache, created, inFlightLimit>>

TwinSetValueFor ==
  \E field \in Declared(schemaOptions) : \E value \in ValuesOf(field) :
    /\ rawInput' = Assigned(rawInput, field, value)
    /\ InvokeValidate(rawInput', ArgField(field), <<>>, "setValueFor",
                      ArgField(field), <<value>>, OtherCall)
    /\ errorMap' = MapAtEntry(errorMap, ArgField(field), <<>>)
    /\ UNCHANGED <<schemaOptions, schema, refinedFields, shared,
                   subscribers, setterCache, created, inFlightLimit>>

\* the engine answers both instances alike
TwinSettle ==
  \E i \in 1..Len(pending) : \E threw \in BOOLEAN :
    LET pass == pending[i]
        r == ValidateResume(schemaOptions, pass, threw)
    IN /\ errors' = r.errors
       /\ errorMap' = MapResume(schemaOptions, pass, errorMap, threw)
       /\ pending' = Remove(pending, i)
       /\ last' = [kind |-> "settle", op |-> pass.op, shape |-> pass.shape,
                   field |-> pass.field, arg1 |-> ArgNone, arg2 |-> <<>>,
                   pass |-> <<pass>>, result |-> <<r>>, threw |-> threw,
                   invoked |-> Invoked(subscribers, r.notified)]
       /\ trace' = IF threw THEN TraceOff ELSE trace
       /\ UNCHANGED <<schemaOptions, rawInput, schema, refinedFields, shared,
                      subscribers, setterCache, created, inFlightLimit>>

InitTwin == InitSerial

NextTwin ==
  \/ TwinValidate
  \/ TwinValidateField
  \/ TwinSetRawValue
  \/ TwinMergeRawValue
  \/ TwinSetValueFor
  \/ TwinSettle

SpecTwin == InitTwin /\ [][NextTwin]_vars

\* ------------------------------------------------------------ useFormSchema
\* the error list handleSubmit hands to onSubmitInvalid for anything caught
\* that is not a ValidationError
SubmissionFailed ==
  << [path |-> "", code |-> ValidationCode.UNEXPECTED,
      message |-> "An unexpected error occurred during submission.", origin |-> ""] >>

\* the callbacks the handler of handleSubmit(onSubmitValid, onSubmitInvalid)
\* invokes, in order, once getValidatedValue() has settled with r;
\* validThrows: onSubmitValid throws an Error
HandleSubmit(r, validThrows) ==
  IF r.outcome = "resolved"
    THEN << [callback |-> "onSubmitValid", arg |-> r.data] >>
         \o (IF validThrows
               THEN << [callback |-> "onSubmitInvalid", arg |-> <<SubmissionFailed>>] >>
               ELSE <<>>)
  ELSE IF r.error # <<>>
    THEN << [callback |-> "onSubmitInvalid", arg |-> <<r.error[1].fields>>] >>
  ELSE << [callback |-> "onSubmitInvalid", arg |-> <<SubmissionFailed>>] >>

\* a submit event reaches the handler: it awaits formSchema.getValidatedValue()
Submit ==
  /\ Invoke(GetValidatedEntry(schemaOptions, rawInput, errors, refinedFields, schema, <<>>),
            "handleSubmit", ArgNone, <<>>, OtherCall)
  /\ UNCHANGED <<schemaOptions, rawInput, schema, refinedFields, shared, registry>>

\* getValidatedValue() settles and the handler runs to its end
SubmitSettle ==
  \E i \in 1..Len(pending) : \E threw \in BOOLEAN : \E validThrows \in BOOLEAN :
    LET pass == pending[i]
        r == GetValidatedResume(schemaOptions, pass, errors, threw)
    IN /\ pass.op = "getValidatedValue"
       /\ errors' = r.errors
       /\ pending' = Remove(pending, i)
       /\ last' = [kind |-> "submit", op |-> "handleSubmit", shape |-> pass.shape,
                   field |-> pass.field, arg1 |-> ArgNone, arg2 |-> <<>>,
                   pass |-> <<pass>>, result |-> <<r>>, threw |-> threw,
                   invoked |-> Invoked(subscribers, r.notified),
                   called |-> HandleSubmit(r, validThrows)]
       /\ trace' = IF threw THEN TraceOff ELSE trace
       /\ UNCHANGED <<schemaOptions, rawInput, schema, refinedFields, shared, registry>>

InitSubmit == Init

NextSubmit ==
  \/ Submit
  \/ SubmitSettle
  \/ ApplyRule

SpecSubmit == InitSubmit /\ [][NextSubmit]_vars

\* ------------------------------------------------------------ the caller
\* What code outside the instance can do with the objects the instance takes
\* and hands out. `shared` says whether the object the caller last passed in
\* or got back is the object this._rawInput refers to.

\* FormErrorManager.addError(error): this._errors.push(error)
AddError(errs, error) == Append(errs, error)

\* a FieldError made by the caller
CallerError == [path |-> "name", code |-> "custom", message |-> "by caller", origin |-> ""]

\* const values = form.getRawValue()
GetRawValueCall ==
  /\ shared' = SpreadIsSame(rawInput)
  /\ last' = [kind |-> "get", op |-> "getRawValue", value |-> GetRawValue, pass |-> <<>>]
  /\ UNCHANGED <<schemaOptions, rawInput, schema, refinedFields, errors, pending,
                 trace, registry>>

\* values[field] = value, on the object the caller last passed in or got back
CallerWritesObject ==
  \E field \in Declared(schemaOptions) : \E value \in ValuesOf(field) :
    /\ rawInput' = IF shared THEN Assigned(rawInput, field, value) ELSE rawInput
    /\ last' = [kind |-> "caller", op |-> "writeObject", field |-> field,
                value |-> value, pass |-> <<>>]
    /\ UNCHANGED <<schemaOptions, schema, refinedFields, errors, pending, trace,
                   shared, registry>>

\* form.errors.clearErrors(): the accessor returns this._errorsManager
CallerClearsErrors ==
  /\ errors' = ClearErrors
  /\ last' = [kind |-> "caller", op |-> "errors.clearErrors", pass |-> <<>>]
  /\ UNCHANGED <<schemaOptions, rawInput, schema, refinedFields, pending, trace,
                 shared, registry>>

\* form.errors.addError(error)
CallerAddsError ==
  /\ Len(errors) < MaxErrors
  /\ errors' = AddError(errors, CallerError)
  /\ last' = [kind |-> "caller", op |-> "errors.addError", pass |-> <<>>]
  /\ UNCHANGED <<schemaOptions, rawInput, schema, refinedFields, pending, trace,
                 shared, registry>>

\* form.errors.getAllErrors().push(error): the list is a copy
CallerWritesList ==
  /\ errors' = errors
  /\ last' = [kind |-> "caller", op |-> "getAllErrors.push",
              list |-> Append(GetAllErrors(errors), CallerError), pass |-> <<>>]
  /\ UNCHANGED <<schemaOptions, rawInput, schema, refinedFields, pending, trace,
                 shared, registry>>

\* (await form.validate(...)).fields.push(error), right after validate has
\* returned a ValidationError: setErrors stored that fields array itself
CallerPushesFields ==
  /\ last.kind = "settle" /\ last.op = "validate"
  /\ last.result[1].error # <<>>
  /\ errors = last.result[1].error[1].fields
  /\ Len(errors) < MaxErrors
  /\ errors' = Append(errors, CallerError)
  /\ last' = [kind |-> "caller", op |-> "fields.push", pass |-> <<>>]
  /\ UNCHANGED <<schemaOptions, rawInput, schema, refinedFields, pending, trace,
                 shared, registry>>

InitCaller == InitUser(MaxInFlight)

NextCaller ==
  \/ SetRawValue
  \/ MergeRawValue
  \/ Reset
  \/ Validate
  \/ Settle
  \/ GetRawValueCall
  \/ CallerWritesObject
  \/ CallerClearsErrors
  \/ CallerAddsError
  \/ CallerWritesList
  \/ CallerPushesFields

SpecCaller == InitCaller /\ [][NextCaller]_vars

\* the same callers, with an engine that answers (or throws to) every pass
\* that awaits it
SpecCallerLive == InitCaller /\ [][NextCaller]_vars /\ WF_vars(Settle)

\* callers that start a pass while another still awaits the engine
InitOverlap == InitUser(MaxOverlap)

NextOverlap ==
  \/ SetValueFor
  \/ Validate
  \/ ValidateField
  \/ Settle

SpecOverlap == InitOverlap /\ [][NextOverlap]_vars

\* ------------------------------------------------------------ properties
\* the paths that carry an error
ErrorPaths(errs) == { errs[i].path : i \in 1..Len(errs) }

\* the errors of every path in paths are the same in after as in before
PathsKept(before, after, paths) ==
  \A p \in paths : GetErrorsForField(after, p) = GetErrorsForField(before, p)

\* the event is a step (call or settlement) of a pass that awaits the engine
IsPassStep(ev) == ev.kind \in {"call", "settle"} /\ ev.pass # <<>>

\* the event is the settlement of a pass the engine answered
IsAnswered(ev) == ev.kind = "settle" /\ ev.pass # <<>> /\ ~ev.threw

\* the event belongs to validate(field) or a setter, for a declared field
\* that no cross-field rule names
IsIsolatedFieldStep(ev) ==
  /\ IsPassStep(ev)
  /\ ev.shape = "field"
  /\ ev.pass[1].op = "validate"
  /\ ~ev.pass[1].isRefined
  /\ ev.field \in Declared(schemaOptions)
  /\ ev.field \notin Range(refinedFields)

\* C1: for a field in no cross-field rule, validate(field) or the field's
\* setter, with a value failing the field's own rule, leaves exactly one
\* error at the field's path in the Error Store, and each of its steps
\* leaves the errors of every other path as they were.
C1_IsolatedFieldError ==
  [][ /\ IsIsolatedFieldStep(last') =>
           PathsKept(errors, errors',
                     (ErrorPaths(errors) \cup ErrorPaths(errors')) \ {last'.field})
      /\ (IsIsolatedFieldStep(last') /\ IsAnswered(last') /\ last'.result[1].error # <<>>) =>
           Len(GetErrorsForField(errors', last'.field)) = 1
    ]_vars

\* the whole-form issues whose dot-joined path is the field or starts with "<field>."
IssuesOfField(issues, field) ==
  SelectSeq(issues, LAMBDA issue :
    \/ JoinPath(issue.path) = field
    \/ /\ Len(JoinPath(issue.path)) > Len(field)
       /\ SubSeq(JoinPath(issue.path), 1, Len(field) + 1) = field \o ".")

\* the event belongs to validate(field) or a setter of a refined field
IsRefinedFieldStep(ev) ==
  IsPassStep(ev) /\ ev.shape = "field" /\ ev.pass[1].op = "validate" /\ ev.pass[1].isRefined

\* C2: validate(field) of a refined field asks the engine for the whole form
\* over the current Raw Input Store, and what it records and returns is
\* exactly the whole-form issues whose dot-joined path is the field or starts
\* with "<field>."; no issue of another field is among them.
C2_RefinedFieldFiltered ==
  /\ (IsRefinedFieldStep(last) /\ last.kind = "call") =>
       last.pass[1].request = ObjectRequest(schema, rawInput)
  /\ (IsRefinedFieldStep(last) /\ IsAnswered(last)) =>
       LET pass == last.pass[1]
           whole == SafeParseObject(FieldSchemas(schemaOptions),
                                    pass.request.rules, pass.request.input)
           mine == IssuesOfField(whole.issues, pass.field)
       IN /\ pass.request.kind = "object"
          /\ Len(errors) = Len(mine)
          /\ \A i \in 1..Len(mine) :
               /\ errors[i].path = JoinPath(mine[i].path)
               /\ errors[i].message = mine[i].message
          /\ IF mine = <<>> THEN last.result[1].error = <<>>
             ELSE last.result[1].error # <<>> /\ last.result[1].error[1].fields = errors
          /\ \A e \in Range(errors) :
               e.path = pass.field \/ StartsWith(e.path, pass.field \o ".")

\* C2's case: a refined field's pass settled with the field's own issue while
\* the whole form reported another field's issue too
C2_Witness ==
  /\ IsRefinedFieldStep(last) /\ IsAnswered(last)
  /\ errors # <<>>
  /\ Len(SafeParseObject(FieldSchemas(schemaOptions), last.pass[1].request.rules,
                         last.pass[1].request.input).issues) > Len(errors)

\* the scenario of the form has been followed for n calls, and the pass of
\* the last one has settled
ScenarioAt(opts, n) ==
  trace.on /\ schemaOptions = opts /\ trace.step = n /\ pending = <<>>

\* C3: with one equality rule on the paths [password, confirmPassword], after
\* the password setter got "x" and the confirmPassword setter got "y" (each
\* validation completed) the Error Store holds an error at path
\* confirmPassword; after the confirmPassword setter got "x" and its
\* validation completed, that error is gone.
C3_ConfirmPasswordScenario ==
  /\ ScenarioAt("account", 2) => HasError(errors, <<"confirmPassword">>)
  /\ ScenarioAt("account", 3) => ~HasError(errors, <<"confirmPassword">>)

\* C4: with {name: min(1), age: min(18)} and raw input {name: "", age: 17},
\* after validate() completed the Error Store has errors at name and at age
\* and isValid is false; after the name setter got "Ann" and the age setter
\* got 25 and both validations completed, the Error Store is empty and
\* isValid is true.
C4_NameAgeScenario ==
  /\ ScenarioAt("user", 1) =>
       /\ HasError(errors, <<"name">>)
       /\ HasError(errors, <<"age">>)
       /\ ~IsValid(errors)
  /\ ScenarioAt("user", 3) => (GetAllErrors(errors) = <<>> /\ IsValid(errors))

\* C4's case: the whole scenario was run
C4_Witness == ScenarioAt("user", 3) /\ rawInput["name"] = "Ann" /\ rawInput["age"] = 25

\* the event is validate(name) returning for a name that is no declared field
IsUndeclaredFieldCall(ev) ==
  /\ ev.kind = "settle" /\ ev.op = "validate" /\ ev.pass = <<>>
  /\ ev.shape = "field"
  /\ ev.field \notin Declared(schemaOptions)

\* C5: validate(name) with a name that is no declared field resolves with an
\* error of code FIELD_UNKNOWN, and leaves the errors recorded for every
\* declared field as they were.
C5_UnknownField ==
  [][ IsUndeclaredFieldCall(last') =>
        /\ last'.result[1].outcome = "resolved"
        /\ last'.result[1].error # <<>>
        /\ \A e \in Range(last'.result[1].error[1].fields) :
             e.code = ValidationCode.FIELD_UNKNOWN
        /\ PathsKept(errors, errors', Declared(schemaOptions))
    ]_vars

\* the event is validate(...) returning, whoever called it
IsValidateReturn(ev) == ev.kind = "settle" /\ ev.op # "getValidatedValue"

\* the validation the event settles passed: the engine answered, and reported
\* no issue (for a refined field: no issue of that field)
ValidationPassed(ev) ==
  /\ IsAnswered(ev)
  /\ LET pass == ev.pass[1]
         issues == IF pass.request.kind = "object"
                     THEN SafeParseObject(FieldSchemas(schemaOptions),
                                          pass.request.rules, pass.request.input).issues
                     ELSE SafeParseField(pass.request.field, pass.request.val).issues
     IN IF pass.shape \in {"field", "fieldValue"} /\ pass.isRefined
          THEN IssuesOfField(issues, pass.field) = <<>>
          ELSE issues = <<>>

\* C6: validate, in each argument shape and for every outcome of the engine
\* (success, issues, exception), never throws or rejects: it resolves, with
\* undefined when validation passed and with a ValidationError when it failed.
C6_ValidateAlwaysResolves ==
  IsValidateReturn(last) =>
    /\ last.result[1].outcome = "resolved"
    /\ last.result[1].thrown = <<>>
    /\ IF ValidationPassed(last)
         THEN last.result[1].error = <<>>
         ELSE /\ last.result[1].error # <<>>
              /\ Len(last.result[1].error[1].fields) > 0

\* C6's case: the engine threw and validate resolved with the error
C6_Witness ==
  /\ IsValidateReturn(last) /\ last.threw
  /\ last.result[1].outcome = "resolved"
  /\ last.result[1].error[1].fields[1].code = ValidationCode.UNEXPECTED

\* the event belongs to getValidatedValue() without a field
IsGetAllStep(ev) ==
  IsPassStep(ev) /\ ev.pass[1].op = "getValidatedValue" /\ ev.shape = "all"

\* C7: getValidatedValue() parses the whole Raw Input Store; when it is valid
\* the call resolves with the parsed data and the Error Store is empty; when it
\* is invalid the call rejects with a ValidationError whose fields are the
\* engine's issues one for one, in order, and the Error Store holds the same.
C7_GetValidatedValueAll ==
  /\ (IsGetAllStep(last) /\ last.kind = "call") =>
       last.pass[1].request = ObjectRequest(schema, rawInput)
  /\ (IsGetAllStep(last) /\ IsAnswered(last)) =>
       LET pass == last.pass[1]
           whole == SafeParseObject(FieldSchemas(schemaOptions),
                                    pass.request.rules, pass.request.input)
           r == last.result[1]
       IN IF whole.success
            THEN /\ r.outcome = "resolved"
                 /\ r.data = <<whole.data>>
                 /\ errors = <<>>
            ELSE /\ r.outcome = "rejected"
                 /\ r.error # <<>>
                 /\ Len(r.error[1].fields) = Len(whole.issues)
                 /\ \A i \in 1..Len(whole.issues) :
                      /\ r.error[1].fields[i].path = JoinPath(whole.issues[i].path)
                      /\ r.error[1].fields[i].message = whole.issues[i].message
                 /\ errors = r.error[1].fields

\* C7's case: getValidatedValue() rejected with more than one issue
C7_Witness ==
  /\ IsGetAllStep(last) /\ IsAnswered(last)
  /\ last.result[1].outcome = "rejected"
  /\ Len(errors) > 1

\* C8: validate(input) leaves the Raw Input Store and the Error Store as they
\* were, at its call and at its settlement, whatever the outcome.
C8_ExternalInputFrame ==
  [][ (IsPassStep(last') /\ last'.shape = "input") =>
        (rawInput' = rawInput /\ errors' = errors)
    ]_vars

\* the Raw Input Store with only field replaced by value
Snapshot(raw, field, value) ==
  [k \in DOMAIN raw \cup {field} |-> IF k = field THEN value ELSE raw[k]]

\* C9: validate(field, value) validates the Raw Input Store with only the
\* field replaced by the value, branches on refined or not as validate(field)
\* does, and none of its steps changes the Raw Input Store.
C9_FieldValueSnapshot ==
  [][ (last'.kind \in {"call", "settle"} /\ last'.shape = "fieldValue") =>
        /\ rawInput' = rawInput
        /\ GetRawValue' = GetRawValue
        /\ (last'.kind = "call") =>
             LET pass == last'.pass[1]
                 snapshot == Snapshot(rawInput, last'.arg1.s, last'.arg2[1])
             IN /\ pass.isRefined = (pass.field \in Range(refinedFields))
                /\ IF pass.isRefined
                     THEN pass.request = ObjectRequest(schema, snapshot)
                     ELSE pass.request = FieldRequest(pass.field, <<snapshot[pass.field]>>)
    ]_vars

\* C9's case: validate(field, value) of a refined field settled with an error
\* while the stored value of the field differs from the value validated
C9_Witness ==
  /\ IsAnswered(last) /\ last.shape = "fieldValue" /\ last.pass[1].isRefined
  /\ errors # <<>>
  /\ Get(rawInput, last.field) # Get(last.pass[1].request.input, last.field)

\* C10: right after setRawValue(v), getRawValue() returns exactly v.
C10_SetThenGet ==
  (last.kind = "call" /\ last.op = "setRawValue") => GetRawValue = last.arg1.o

\* C10's case: setRawValue was called with a mapping that lacks a field
C10_Witness ==
  /\ last.kind = "call" /\ last.op = "setRawValue"
  /\ last.arg1.o = EmptyInput
  /\ DOMAIN GetRawValue = {}

\* C11: mergeRawValue(p) leaves the Raw Input Store with p's value for every
\* key of p and the prior value for every prior key that is not in p; no
\* other key is added or removed.
C11_MergeFrame ==
  [][ (last'.kind = "call" /\ last'.op = "mergeRawValue") =>
        LET p == last'.arg1.o
        IN /\ DOMAIN rawInput' = DOMAIN rawInput \cup DOMAIN p
           /\ \A k \in DOMAIN rawInput' :
                rawInput'[k] = IF k \in DOMAIN p THEN p[k] ELSE rawInput[k]
    ]_vars

\* C11's case: a merge of some but not all of the keys the store holds
C11_Witness ==
  /\ last.kind = "call" /\ last.op = "mergeRawValue"
  /\ DOMAIN last.arg1.o # {}
  /\ DOMAIN last.arg1.o \subseteq DOMAIN rawInput
  /\ DOMAIN last.arg1.o # DOMAIN rawInput

\* C12: on one instance, whatever was called in between, setValueFor(field)
\* returns the function that the first setValueFor(field) returned.
C12_SetterIdentity ==
  [][ /\ \A f \in DOMAIN setterCache :
           f \in DOMAIN setterCache' /\ setterCache'[f] = setterCache[f]
      /\ (last'.kind = "lookup" /\ last' # last) =>
           /\ last'.field \in DOMAIN setterCache'
           /\ last'.setter = setterCache'[last'.field]
           /\ last'.field \in DOMAIN setterCache => last'.setter = setterCache[last'.field]
    ]_vars

\* C12's case: a setter is returned again after setters of other fields were
\* created and a validation has failed
C12_Witness ==
  /\ last.kind = "lookup"
  /\ last.setter < created
  /\ errors # <<>>

\* how often x occurs in seq
Count(x, seq) == Cardinality({ i \in 1..Len(seq) : seq[i] = x })

\* C13: every validation pass, in each shape and on success, failure, unknown
\* field and unexpected exception, notifies the subscribers exactly once
\* between its start and its completion.
C13_NotifiesOnce ==
  /\ (last.kind = "call") => last.invoked = <<>>
  /\ IsValidateReturn(last) =>
       /\ last.result[1].notified = 1
       /\ Len(last.invoked) = Len(subscribers)
       /\ \A cb \in Range(subscribers) : Count(cb, last.invoked) = 1

\* C13's case: the engine threw, and both subscribers were invoked
C13_Witness ==
  /\ IsValidateReturn(last) /\ last.threw
  /\ Len(subscribers) = 2
  /\ Len(last.invoked) = 2

\* C18: the subscribers are a set: subscribing adds the callback (once, however
\* often it is subscribed), unsubscribing removes it, nothing else changes who
\* is subscribed, and a notification invokes every callback subscribed at that
\* moment exactly once and no other callback.
C18_SubscriberSet ==
  [][ /\ (last'.kind = "bus" /\ last'.op = "subscribe" /\ last' # last) =>
           Range(subscribers') = Range(subscribers) \cup {last'.callback}
      /\ (last'.kind = "bus" /\ last'.op = "unsubscribe" /\ last' # last) =>
           Range(subscribers') = Range(subscribers) \ {last'.callback}
      /\ (last'.kind # "bus") => Range(subscribers') = Range(subscribers)
      /\ (last'.kind = "settle" /\ last' # last) =>
           \A cb \in Callbacks :
             Count(cb, last'.invoked) =
               IF cb \in Range(subscribers) THEN last'.result[1].notified ELSE 0
    ]_vars

\* C18's case: a callback that was subscribed already is subscribed again
C18_Witness ==
  /\ last.kind = "bus" /\ last.op = "subscribe"
  /\ last.callback \in Range(last.before)
  /\ Len(last.before) = 2

\* C14: in every reachable state, isValid is true exactly when the Error
\* Store is empty.
C14_IsValidIffEmpty == IsValid(errors) <=> (Len(GetAllErrors(errors)) = 0)

\* C14's case: the store holds errors, none of them at the form-level path
C14_Witness ==
  /\ errors # <<>>
  /\ \A e \in Range(errors) : e.path # ""
  /\ ~IsValid(errors)

\* C15: when the engine throws during validate, in any shape, validate
\* catches it and the Error Store holds exactly one error, of code
\* UNEXPECTED, at the path of the field when one was named and at the empty
\* path otherwise.
C15_UnexpectedException ==
  (IsValidateReturn(last) /\ last.threw) =>
    /\ last.result[1].outcome = "resolved"
    /\ Len(errors) = 1
    /\ errors[1].code = ValidationCode.UNEXPECTED
    /\ errors[1].path = (IF last.shape \in {"field", "fieldValue"} THEN last.field ELSE "")

\* C15's case: the engine threw while a named field was validated
C15_Witness ==
  /\ IsValidateReturn(last) /\ last.threw
  /\ last.shape = "fieldValue"
  /\ errors[1].path = last.field

\* C16: a pass started while another awaits the engine cancels nothing; the
\* passes complete in any order, each completion removes only its own pass,
\* and the Error Store then holds what that pass wrote, computed from the
\* input the pass was started with.
C16_LastCompletionWins ==
  [][ /\ (last'.kind = "call" /\ last' # last) =>
           pending' = Append(pending, last'.pass[1])
      /\ (IsPassStep(last') /\ last'.kind = "settle") =>
           /\ \E i \in 1..Len(pending) :
                /\ pending[i] = last'.pass[1]
                /\ pending' = [j \in 1..(Len(pending) - 1) |->
                                 IF j < i THEN pending[j] ELSE pending[j + 1]]
           /\ errors' = last'.result[1].errors
           /\ IF ValidationPassed(last')
                THEN errors' = <<>>
                ELSE errors' # <<>> /\ errors' = last'.result[1].error[1].fields
    ]_vars

\* C16's case: both passes have completed, and the one that completed last
\* had validated a value the store no longer holds, and left its error
C16_Witness ==
  /\ pending = <<>>
  /\ IsAnswered(last) /\ last.shape = "field"
  /\ last.pass[1].request.kind = "field"
  /\ last.pass[1].request.val # Get(rawInput, last.field)
  /\ errors # <<>>

\* the methods that write the Raw Input Store and start a validation
Mutators == {"setRawValue", "mergeRawValue", "reset", "setValueFor"}

\* the Raw Input Store a mutator is to leave
Written(raw, ev) ==
  CASE ev.op = "setRawValue" -> ev.arg1.o
    [] ev.op = "mergeRawValue" ->
         [k \in DOMAIN raw \cup DOMAIN ev.arg1.o |->
            IF k \in DOMAIN ev.arg1.o THEN ev.arg1.o[k] ELSE raw[k]]
    [] ev.op = "reset" -> IF ev.arg1.t = "undefined" THEN EmptyInput ELSE ev.arg1.o
    [] OTHER -> Snapshot(raw, ev.arg1.s, ev.arg2[1])

\* C17: setRawValue, mergeRawValue, reset and the setters have written the
\* Raw Input Store when they return, return while their validation pass
\* still awaits the engine, and that pass never ends in an exception: it
\* resolves, whatever the engine did.
C17_FireAndForget ==
  [][ /\ (last'.kind \in {"call", "settle"} /\ last'.op \in Mutators) =>
           /\ last'.kind = "call"
           /\ rawInput' = Written(rawInput, last')
           /\ pending' = Append(pending, last'.pass[1])
      /\ (IsPassStep(last') /\ last'.kind = "settle" /\ last'.pass[1].op = "validate") =>
           /\ last'.result[1].outcome = "resolved"
           /\ last'.result[1].thrown = <<>>
           /\ rawInput' = rawInput
    ]_vars

\* C17's case: a setter has returned, its value is stored, its pass is pending
C17_Witness ==
  /\ last.kind = "call" /\ last.op = "setValueFor"
  /\ pending # <<>>
  /\ Get(rawInput, last.field) = last.arg2

\* C19: only the instance's own methods change the Error Store: nothing a
\* caller does with the errors accessor, with the list getAllErrors returned,
\* or with the fields of a ValidationError it was given, changes it.
C19_StoreEncapsulated ==
  [][ last'.kind = "caller" => errors' = errors ]_vars

\* C20: the Raw Input Store is not the object the caller passed to the
\* constructor, to setRawValue, mergeRawValue or reset, nor the object
\* getRawValue() returned: a caller writing a field of that object changes
\* no field of the store.
C20_RawInputNotShared ==
  [][ (last'.kind = "caller" /\ last'.op = "writeObject") =>
        /\ ~shared
        /\ rawInput' = rawInput
    ]_vars

\* C20's case: the caller wrote a value to its object that the store does
\* not hold for that field
C20_Witness ==
  /\ last.kind = "caller" /\ last.op = "writeObject"
  /\ Get(rawInput, last.field) # last.value

\* C22: when the validation that reset(initialValues?) started completes,
\* with no other call since reset returned, the Error Store is empty.
C22_ResetClearsErrors ==
  [][ (last.kind = "call" /\ last.op = "reset" /\ last'.kind = "settle" /\ last'.pass # <<>>) =>
        errors' = <<>>
    ]_vars

\* the paths a caller asks hasError about: the declared fields, a path of a
\* cross-field rule, and the empty, form-level path
AskedPaths == Declared(schemaOptions) \cup {"", "password.confirmPassword"}

\* C24: for every path given to hasError, the empty path included,
\* hasError(path) is true exactly when the Error Store holds an error whose
\* path equals it.
C24_HasErrorByPath ==
  \A p \in AskedPaths :
    HasError(errors, <<p>>) <=> (\E e \in Range(errors) : e.path = p)

\* C25: validate(field), up to its await of the engine, removes no error of
\* another path from the Error Store.
C25_FieldSetupFrame ==
  [][ (last'.kind = "call" /\ last'.op = "validate" /\ last'.shape = "field") =>
        PathsKept(errors, errors', ErrorPaths(errors) \ {last'.field})
    ]_vars

\* the event is a step of validate(name) or validate(name, value) for a name
\* that is not a declared field
IsUndeclaredNameStep(ev) ==
  /\ ev.kind \in {"call", "settle"} /\ ev.op = "validate"
  /\ ev.shape \in {"field", "fieldValue"}
  /\ ev.field \notin Declared(schemaOptions)

\* C30: validate(name) and validate(name, value), for a name that is not a
\* declared field, return without asking the engine, with exactly one
\* FieldError: path the name, code FIELD_UNKNOWN, message "Unknown Field: "
\* followed by the name.
C30_UnknownName ==
  IsUndeclaredNameStep(last) =>
    /\ last.kind = "settle" /\ last.pass = <<>>
    /\ last.result[1].error # <<>>
    /\ Len(last.result[1].error[1].fields) = 1
    /\ last.result[1].error[1].fields[1].path = last.field
    /\ last.result[1].error[1].fields[1].code = ValidationCode.FIELD_UNKNOWN
    /\ last.result[1].error[1].fields[1].message = "Unknown Field: " \o last.field

\* whole-form validation under the rules accepts the input
Accepts(rules, input) ==
  SafeParseObject(FieldSchemas(schemaOptions), rules, input).success

\* C23: applyRule(rule) only strengthens whole-form validation: every input
\* accepted with the rule registered was accepted before, so every input
\* rejected before is rejected afterwards.
C23_RuleOnlyStrengthens ==
  [][ (last'.kind = "rule" /\ schema' # schema) =>
        \A input \in AllInputs(schemaOptions) :
          Accepts(schema', input) => Accepts(schema, input)
    ]_vars

\* C23's case: a rule was registered that rejects an input accepted without it
C23_Witness ==
  /\ last.kind = "rule" /\ schema # <<>>
  /\ \E input \in AllInputs(schemaOptions) :
       /\ Accepts(SubSeq(schema, 1, Len(schema) - 1), input)
       /\ ~Accepts(schema, input)

\* the whole form failed for the pass of the event, with no issue at the
\* pass's field or under it
FailedElsewhere(ev) ==
  LET pass == ev.pass[1]
      whole == SafeParseObject(FieldSchemas(schemaOptions),
                               pass.request.rules, pass.request.input)
  IN ~whole.success /\ IssuesOfField(whole.issues, pass.field) = <<>>

\* C26: validate(field) of a refined field, when the whole form fails with
\* no issue at the field or under it, resolves with undefined and leaves no
\* error recorded for the field.
C26_UnrelatedFailureIsSuccess ==
  (IsRefinedFieldStep(last) /\ IsAnswered(last) /\ FailedElsewhere(last)) =>
    /\ last.result[1].outcome = "resolved"
    /\ last.result[1].error = <<>>
    /\ GetErrorsForField(errors, last.field) = <<>>

\* C26's case: a refined field's pass settled while the whole form failed
\* for another path only
C26_Witness ==
  /\ IsRefinedFieldStep(last) /\ IsAnswered(last) /\ FailedElsewhere(last)
  /\ last.result[1].error = <<>>

\* the event belongs to validate() without arguments
IsValidateAllStep(ev) ==
  IsPassStep(ev) /\ ev.shape = "all" /\ ev.pass[1].op = "validate"

\* the errors are the issues converted one for one, in order
ConvertedFrom(errs, issues) ==
  /\ Len(errs) = Len(issues)
  /\ \A i \in 1..Len(issues) :
       /\ errs[i].path = JoinPath(issues[i].path)
       /\ errs[i].message = issues[i].message

\* C28: when validate() settles on the engine's answer right after its call,
\* the Error Store holds exactly the errors converted from the issues of
\* whole-form validation (field rules and registered cross-field rules) of
\* the current Raw Input Store, whatever it held before, and it is empty
\* exactly when validate() resolved with undefined.
C28_ValidateAllReplaces ==
  [][ (/\ last.kind = "call" /\ IsValidateAllStep(last)
       /\ IsAnswered(last') /\ last'.pass = last.pass) =>
        /\ ConvertedFrom(errors', SafeParseObject(FieldSchemas(schemaOptions),
                                                  schema', rawInput').issues)
        /\ (errors' = <<>>) <=> (last'.result[1].error = <<>>)
        /\ last'.result[1].outcome = "resolved"
    ]_vars

\* C28's case: validate() settled with the issue of a cross-field rule
C28_Witness ==
  /\ IsValidateAllStep(last) /\ IsAnswered(last)
  /\ \E e \in Range(errors) : e.path = "password.confirmPassword"

\* C29: calling the setter of a field with a value changes that field's
\* entry of the Raw Input Store and no other, and starts exactly one
\* validation pass: validate(field), on the stored value, for that field.
C29_SetterFrame ==
  [][ (last'.kind \in {"call", "settle"} /\ last'.op = "setValueFor") =>
        LET field == last'.arg1.s
            value == last'.arg2[1]
        IN /\ DOMAIN rawInput' = DOMAIN rawInput \cup {field}
           /\ rawInput'[field] = value
           /\ \A k \in DOMAIN rawInput \ {field} : rawInput'[k] = rawInput[k]
           /\ last'.kind = "call"
           /\ pending' = Append(pending, last'.pass[1])
           /\ last'.pass[1].op = "validate"
           /\ last'.pass[1].shape = "field"
           /\ last'.pass[1].field = field
           /\ last'.pass[1].request =
                IF field \in Range(refinedFields)
                  THEN ObjectRequest(schema, rawInput')
                  ELSE FieldRequest(field, <<value>>)
    ]_vars

\* C29's case: a setter has returned, and the store holds another field too
C29_Witness ==
  /\ last.kind = "call" /\ last.op = "setValueFor"
  /\ DOMAIN rawInput \ {last.field} # {}
  /\ pending = <<last.pass[1]>>

\* the value of its field that the pass had validated
ValidatedValue(pass) ==
  IF pass.request.kind = "field" THEN pass.request.val
  ELSE Get(pass.request.input, pass.field)

\* C27: for a declared field that no cross-field rule names, what
\* validate(field) returns is what it returns on every other Raw Input Store
\* holding the same value for the field: the values of the other fields have
\* no part in the outcome.
C27_IsolatedFieldOutcome ==
  (IsIsolatedFieldStep(last) /\ last.kind = "settle") =>
    \A other \in AllInputs(schemaOptions) :
      (Get(other, last.field) = ValidatedValue(last.pass[1])) =>
        LET entry == ValidateEntry(schemaOptions, other, errors, refinedFields, schema,
                                   ArgField(last.field), <<>>)
            twin == ValidateResume(schemaOptions, entry.pass, last.threw)
        IN /\ entry.suspended
           /\ twin.outcome = last.result[1].outcome
           /\ twin.error = last.result[1].error

\* C27's case: the field's validation passed while another field of the
\* store is invalid
C27_Witness ==
  /\ IsIsolatedFieldStep(last) /\ IsAnswered(last)
  /\ last.result[1].error = <<>>
  /\ Get(rawInput, last.field) = ValidatedValue(last.pass[1])
  /\ ~Accepts(schema, rawInput)

\* the latest step changed a store through the public interface: a method
\* wrote it on its way to the engine, or the caller added an error through
\* the errors accessor
StoreChanged ==
  \/ last.kind = "call"
  \/ last.kind = "caller" /\ last.op = "errors.addError"

\* the latest step notified the subscribers
Notified == last.kind = "settle" /\ last.result[1].notified > 0

\* C21: with an engine that answers every pass, every change of the Raw
\* Input Store or the Error Store made through the public interface, the
\* error manager behind the errors accessor included, is eventually followed
\* by a notification of the subscribers.
C21_ChangeNotified == StoreChanged ~> Notified

\* the instance is as construction leaves it: the latest step constructed it
\* or registered a rule, no error is stored and no validation is in flight
Untouched == last.kind \in {"new", "rule"} /\ errors = <<>> /\ pending = <<>>

\* C36: right after construction, with any schema, rules and initial values,
\* the Error Store is empty and isValid is true, and registering rules, which
\* starts no validation pass, leaves them so.
C36_ConstructionIsQuiet ==
  /\ (errors = <<>> /\ IsValid(errors) /\ pending = <<>>)
  /\ [][ (Untouched /\ last'.kind = "rule") =>
           (errors' = <<>> /\ IsValid(errors') /\ pending' = <<>> /\ last'.invoked = <<>>)
       ]_vars

\* C36's case: an instance with initial values that fail validation, and a
\* rule registered after construction, still without an error
C36_Witness ==
  /\ Untouched /\ last.kind = "rule"
  /\ ~Accepts(schema, rawInput)
  /\ IsValid(errors)

\* what a pass of validate() or validate(field) asks of the engine when it
\* reads the given store
RequestOn(pass, rules, raw) ==
  IF pass.shape = "all" \/ pass.isRefined
    THEN ObjectRequest(rules, raw)
    ELSE FieldRequest(pass.field, Get(raw, pass.field))

\* C31: when each call is made only after the validation of the one before
\* has completed, every pass that completes had validated the Raw Input
\* Store as it is at that moment, and what it writes to the Error Store is
\* the outcome for that store: nothing computed from an older input is
\* written.
C31_SerializedNoStaleWrite ==
  [][ (/\ IsPassStep(last') /\ last'.kind = "settle"
       /\ last'.pass[1].op = "validate"
       /\ last'.shape \in {"all", "field"}) =>
        LET pass == last'.pass[1]
            current == [pass EXCEPT !.request = RequestOn(pass, schema', rawInput')]
        IN /\ pass.request = current.request
           /\ errors' = ValidateResume(schemaOptions, current, last'.threw).errors
    ]_vars

\* C31's case: a setter's pass completed with an error for the value the
\* store holds
C31_Witness ==
  /\ IsAnswered(last) /\ last.shape = "field"
  /\ last.pass[1].request = RequestOn(last.pass[1], schema, rawInput)
  /\ pending = <<>>
  /\ errors # <<>>

\* C34: with serialized calls, when no pass is in flight and a pass has
\* completed since the Raw Input Store last changed, isValid is true only
\* if the whole Raw Input Store passes whole-form validation.
C34_IsValidMeansWholeFormValid ==
  (pending = <<>> /\ last.kind = "settle" /\ last.pass # <<>> /\ IsValid(errors)) =>
    Accepts(schema, rawInput)

\* C32: for every submit event the handler invokes exactly one callback:
\* onSubmitValid, with the parsed data, when whole-form validation passes,
\* and onSubmitInvalid otherwise, whatever the callbacks do.
C32_ExactlyOneCallback ==
  (last.kind = "submit") =>
    /\ Len(last.called) = 1
    /\ IF Accepts(last.pass[1].request.rules, last.pass[1].request.input) /\ ~last.threw
         THEN last.called[1] = [callback |-> "onSubmitValid", arg |-> last.result[1].data]
         ELSE last.called[1].callback = "onSubmitInvalid"

\* the message of the first of the errors that have the path
FirstMessage(fields, path) ==
  LET i == CHOOSE i \in 1..Len(fields) :
             fields[i].path = path /\ \A j \in 1..(i - 1) : fields[j].path # path
  IN fields[i].message

\* C33: in the path-to-message FormSchema, after a validation reported
\* errors, getFieldError(path) returns, for every path reported, the message
\* of the first error reported for that path.
C33_FirstMessageStored ==
  (last.kind = "update") =>
    \A p \in ErrorPaths(last.fields) :
      GetFieldError(errorMap, p) = <<FirstMessage(last.fields, p)>>

\* C35: given the same setRawValue, mergeRawValue, setter and validate
\* calls, each completed before the next, the path-to-message FormSchema and
\* the FormErrorManager-based FormSchema hold errors for the same paths
\* after every call.
C35_SamePathsInError ==
  (pending = <<>>) => (DOMAIN errorMap = ErrorPaths(errors))

====
